---- MODULE Spec2Model ----
(***************************************************************************)
(* Model of the RF propagation engine of entropyvision (the Radio City     *)
(* page): path-loss helpers, buildRayBundle, probeAtWithRc, the Scene      *)
(* rebuild effect, the mobility controller and the probe vehicle.          *)
(*                                                                         *)
(* Numbers.  Powers and losses are fixed-point integers in hundredths of   *)
(* a dB (3240 is 32.4 dB).  Distances are whole metres, frequencies whole  *)
(* MHz, times whole milliseconds.  The three non-finite IEEE values the    *)
(* code can produce (log10 of zero or of a negative number) are the        *)
(* integers Infinity, -Infinity and NaN below, and every arithmetic        *)
(* operator and comparison on powers goes through FAdd/FSub/FGt/... which  *)
(* follow the IEEE rules for them.                                         *)
(***************************************************************************)
EXTENDS Integers, Sequences, FiniteSets, TLC

\* ---------------------------------------------------------------------
\* IEEE-style extended arithmetic on fixed-point values
\* ---------------------------------------------------------------------
Infinity == 10 ^ 9
NaN == 2 * (10 ^ 9)

IsNaN(a) == a = NaN
IsFinite(a) == a # NaN /\ a # Infinity /\ a # -Infinity

FNeg(a) == IF IsNaN(a) THEN NaN ELSE -a

FAdd(a, b) ==
  IF IsNaN(a) \/ IsNaN(b) THEN NaN
  ELSE IF a = Infinity THEN (IF b = -Infinity THEN NaN ELSE Infinity)
  ELSE IF a = -Infinity THEN (IF b = Infinity THEN NaN ELSE -Infinity)
  ELSE IF b = Infinity \/ b = -Infinity THEN b
  ELSE a + b

FSub(a, b) == FAdd(a, FNeg(b))

\* comparisons: every comparison with NaN is false
FGt(a, b) == ~IsNaN(a) /\ ~IsNaN(b) /\ a > b
FGe(a, b) == ~IsNaN(a) /\ ~IsNaN(b) /\ a >= b
FLt(a, b) == ~IsNaN(a) /\ ~IsNaN(b) /\ a < b
FLe(a, b) == ~IsNaN(a) /\ ~IsNaN(b) /\ a <= b

\* x dB as a fixed-point value
cdB(x) == x * 100

\* ---------------------------------------------------------------------
\* Types & constants (part_001 lines 101-105)
\* ---------------------------------------------------------------------
DEFAULT_FREQ == 2400
DEFAULT_PWR == cdB(36)
MAX_BOUNCES == 2
MIN_POWER_DBM_Low == cdB(-130)
MIN_POWER_DBM == cdB(-110)
WALL_LOSS_DB == cdB(25)

\* ---------------------------------------------------------------------
\* Math helpers
\* ---------------------------------------------------------------------
\* 20 * Math.log10(x) in hundredths of a dB, tabulated (rounded to the
\* nearest hundredth) for the arguments the model uses; log10(0) is
\* -Infinity and log10 of a negative number is NaN, as in JavaScript.
Log10Args ==
  {1, 5, 8, 10, 12, 13, 16, 24, 100, 250, 500, 900, 1000, 2400, 5000, 10000,
   100000}

Log10Table ==
  [x \in Log10Args |->
     CASE x = 1 -> 0
       [] x = 5 -> 1398
       [] x = 8 -> 1806
       [] x = 10 -> 2000
       [] x = 12 -> 2158
       [] x = 13 -> 2228
       [] x = 16 -> 2408
       [] x = 24 -> 2760
       [] x = 100 -> 4000
       [] x = 250 -> 4796
       [] x = 500 -> 5398
       [] x = 900 -> 5908
       [] x = 1000 -> 6000
       [] x = 2400 -> 6760
       [] x = 5000 -> 7398
       [] x = 10000 -> 8000
       [] x = 100000 -> 10000]

TwentyLog10(x) ==
  IF x < 0 THEN NaN
  ELSE IF x = 0 THEN -Infinity
  ELSE Log10Table[x]

Max(a, b) == IF a >= b THEN a ELSE b
Min(a, b) == IF a <= b THEN a ELSE b

\* fsplDb: dKm = max(dMeters / 1000, 0.001), so with dMeters a whole number
\* of metres 20*log10(dKm) = 20*log10(max(dMeters, 1)) - 60.
fsplDb(dMeters, fMHz) ==
  FAdd(FAdd(3240, TwentyLog10(fMHz)), TwentyLog10(Max(dMeters, 1)) - 6000)

\* faulty variant: no floor at one metre
fsplDbMm_NoFloor(dMm, fMHz) ==
  FAdd(FAdd(3240, TwentyLog10(fMHz)), TwentyLog10(dMm) - 12000)

\* fsplDb with the distance in millimetres, for distances below a metre:
\* 20*log10(dKm) = 20*log10(max(dMm, 1000)) - 120
fsplDbMm(dMm, fMHz) ==
  FAdd(FAdd(3240, TwentyLog10(fMHz)), TwentyLog10(Max(dMm, 1000)) - 12000)

\* materialReflectionLossDb: grazing = 1 - |n.d| is given in percent
\* (0 head-on, 100 grazing); matType "none" is a mesh without a tag.
materialReflectionLossDb(matType, grazing) ==
  IF matType = "glass" THEN 1000 + 10 * grazing
  ELSE IF matType = "metal" THEN 0 + 3 * grazing
  ELSE 300 + 6 * grazing

\* the material label recorded on a hop (lines 695-698)
HopMaterial(isFirst, matType) ==
  IF isFirst THEN "los"
  ELSE IF matType = "none" THEN "concrete" ELSE matType

\* ---------------------------------------------------------------------
\* Bounds and input sets
\* ---------------------------------------------------------------------
\* number of ray directions buildRayBundle is called with
RayCount == 1

\* hit.distance of the nearest intersection, in metres (0: closer than 1 m)
DistSet == {0, 100, 5000}
\* rc.far of the ray query (line 674)
RAY_FAR == 5000
\* userData.materialType of the hit mesh and the grazing percentage
SurfaceSet ==
  { [mat |-> "glass", grazing |-> 0],
    [mat |-> "metal", grazing |-> 100],
    [mat |-> "none", grazing |-> 50] }
\* transmitters handed to buildRayBundle: powerDbm, freqMHz
RayTxSet ==
  { [powerDbm |-> cdB(36), freqMHz |-> 2400],
    [powerDbm |-> cdB(36), freqMHz |-> 1],
    [powerDbm |-> cdB(20), freqMHz |-> 24],
    [powerDbm |-> cdB(-120), freqMHz |-> 2400],
    [powerDbm |-> cdB(36), freqMHz |-> 0],
    [powerDbm |-> cdB(36), freqMHz |-> -1] }

VARIABLES
  \* buildRayBundle
  rtx,        \* the tx argument
  rmeshes,    \* meshes.length > 0
  rayPc,      \* "entry", "while", "emit", "return"
  rayIdx,     \* i of the for loop over dirs
  power,      \* let power
  hops,       \* const hops (segments is pushed in lock-step with it)
  bounces,    \* let bounces
  first,      \* let first
  bundles     \* const bundles: the hop list of every bundle pushed

rayVars == <<rtx, rmeshes, rayPc, rayIdx, power, hops, bounces, first, bundles>>

VARIABLES
  \* probeAtWithRc
  ptxs,       \* the txs argument, with what the geometry gives for each
  probeDone,  \* the call has returned
  payload,    \* the ProbePayload returned
  \* the explain-rf route, asked about the same point and transmitters
  routeRes    \* the Response of POST: its status and the numeric context

probeVars == <<ptxs, probeDone, payload, routeRes>>

VARIABLES
  \* RadioCityPage and Scene
  txs,          \* useState<Tx[]> (line 2635)
  nextId,       \* the ids crypto.randomUUID has handed out
  edits,        \* the number of setTxs calls so far
  meshesReady,  \* useCityGeometry: meshes.length > 0
  timers,       \* the pending setTimeout(() => setBundlesByTx(map), 0) callbacks
  bundlesByTx   \* useState<Record<string, RayBundle[]>> (line 1508)

sceneVars == <<txs, nextId, edits, meshesReady, timers, bundlesByTx>>

VARIABLES
  \* PathMover and handleCarProbe
  carPath,      \* the points prop: positions along a line, in millimetres
  carProbing,   \* onProbe && txs.length && meshes.length
  clock,        \* performance.now() in milliseconds
  distRef,      \* distRef.current, in millimetres
  tmpPos,       \* tmpPos.current: the vector every frame writes the position to
  lastProbeTs,  \* lastProbeTs.current
  carProbe,     \* useState carProbe (line 2638)
  callTs,       \* observer: the time of the latest probeAtWithRc call, -1 if none
  callGap       \* observer: the time between the two latest calls, -1 if none

carVars ==
  <<carPath, carProbing, clock, distRef, tmpPos, lastProbeTs, carProbe,
    callTs, callGap>>

VARIABLES
  \* PathRfOverlay's useMemo
  opoints,    \* the points prop: positions along a line, in metres
  otxs,       \* the txs prop
  omeshes,    \* the meshes prop: where the walls stand on the line
  opc,        \* "start", "loop", "done"
  oi,         \* i of the loop over segments
  ok,         \* k of the loop over the samples of a segment
  lastBest,   \* let lastBest
  outPts,     \* const outPts
  outCols,    \* const outCols
  hMarkers    \* const hMarkers

overlayVars ==
  <<opoints, otxs, omeshes, opc, oi, ok, lastBest, outPts, outCols, hMarkers>>

VARIABLES
  \* two evaluations of fsplDb, in the page and in the route
  fd1,        \* the first distance, in millimetres
  fd2,        \* the second distance, in millimetres
  ff,         \* the frequency in MHz
  fout        \* the four losses computed

fsplVars == <<fd1, fd2, ff, fout>>

VARIABLES
  \* RadioCityPage: the placement menu and the RF explanation
  placementMenu,  \* useState placementMenu (line 2642)
  rfExplanation,  \* useState rfExplanation (line 2655)
  requests,       \* the fetches of handleExplainRf still awaited
  reqCount        \* the number of fetches issued so far

explainVars == <<placementMenu, rfExplanation, requests, reqCount>>

VARIABLES
  \* InterferenceField
  ftxs,       \* the txs prop
  uTxCount,   \* uniforms.uTxCount.value
  uPos,       \* arrays.posArray
  uFreq,      \* arrays.freqArray, in kHz
  uPow        \* arrays.powArray, in thousandths

fieldVars == <<ftxs, uTxCount, uPos, uFreq, uPow>>

vars ==
  <<rayVars, probeVars, sceneVars, carVars, overlayVars, fsplVars, explainVars,
    fieldVars>>

\* ---------------------------------------------------------------------
\* softmaxDbm and probeAtWithRc (lines 145-153, 1281-1335)
\* ---------------------------------------------------------------------
\* most transmitters handed to one probe
MaxProbeTx == 2

\* what probeAtWithRc sees of a transmitter: its power and frequency, its
\* distance to the probe point in metres, and whether the geometry query
\* reports an intersection within rc.far
ProbeTxSet ==
  { [powerDbm |-> cdB(36), freqMHz |-> 2400, dist |-> 100, blocked |-> FALSE],
    [powerDbm |-> cdB(36), freqMHz |-> 2400, dist |-> 100, blocked |-> TRUE],
    [powerDbm |-> cdB(36), freqMHz |-> 2400, dist |-> 1000, blocked |-> FALSE],
    [powerDbm |-> cdB(33), freqMHz |-> 2400, dist |-> 1000, blocked |-> FALSE],
    [powerDbm |-> cdB(36), freqMHz |-> 900, dist |-> 5000, blocked |-> TRUE],
    [powerDbm |-> cdB(20), freqMHz |-> 24, dist |-> 0, blocked |-> FALSE],
    [powerDbm |-> cdB(-10), freqMHz |-> 2400, dist |-> 1000, blocked |-> FALSE],
    [powerDbm |-> cdB(36), freqMHz |-> 0, dist |-> 100, blocked |-> FALSE],
    [powerDbm |-> cdB(30), freqMHz |-> 2400, dist |-> 1000, blocked |-> FALSE],
    [powerDbm |-> 3010, freqMHz |-> 2400, dist |-> 1000, blocked |-> FALSE],
    [powerDbm |-> 3301, freqMHz |-> 2400, dist |-> 1000, blocked |-> FALSE],
    [powerDbm |-> 2003, freqMHz |-> 2400, dist |-> 1000, blocked |-> FALSE] }

SeqsUpTo(S, n) == UNION { [1 .. k -> S] : k \in 0 .. n }

\* Math.max(...values): NaN if any value is NaN, -Infinity for no value
RECURSIVE MathMax(_)
MathMax(values) ==
  IF Len(values) = 0 THEN -Infinity
  ELSE LET rest == MathMax(Tail(values))
       IN IF IsNaN(Head(values)) \/ IsNaN(rest) THEN NaN
          ELSE Max(Head(values), rest)

\* values.indexOf(v), 0-based, -1 when absent (NaN is never found)
IndexOf(values, v) ==
  LET hits == { k \in 1 .. Len(values) : ~IsNaN(v) /\ values[k] = v }
  IN IF hits = {} THEN -1
     ELSE (CHOOSE k \in hits : \A j \in hits : k <= j) - 1

\* Math.exp(x / temp) for x in hundredths of a dB, as ten-thousandths: the
\* halvings of exp (every temp * ln 2 = 2.77 dB for temp = 4) with linear
\* interpolation between them; exp(-Infinity) = 0, exp(NaN) = NaN.
ExpScale == 10 ^ 4
ExpOver(x, temp) ==
  IF IsNaN(x) THEN NaN
  ELSE IF x = -Infinity THEN 0
  ELSE IF x = Infinity THEN Infinity
  ELSE IF x > 0 THEN ExpScale
  ELSE LET half == (27726 * temp) \div 400
           k == (-x) \div half
           r == (-x) % half
           base == IF k > 30 THEN 0 ELSE ExpScale \div (2 ^ k)
       IN base - (base * r) \div (2 * half)

RECURSIVE SumSeq(_)
SumSeq(values) ==
  IF Len(values) = 0 THEN 0 ELSE FAdd(Head(values), SumSeq(Tail(values)))

\* e / sum as ten-thousandths (a NaN operand gives NaN)
FDivScaled(e, sum) ==
  IF IsNaN(e) \/ IsNaN(sum) THEN NaN
  ELSE IF sum = 0 THEN (IF e = 0 THEN NaN ELSE Infinity)
  ELSE (e * ExpScale) \div sum

\* faulty variant: a single full weight is returned for an empty list
softmaxDbm_EmptyFallback(values, temp) ==
  [weights |-> <<ExpScale>>, bestIdx |-> IndexOf(values, MathMax(values))]

softmaxDbm(values, temp) ==
  IF Len(values) = 0 THEN [weights |-> <<>>, bestIdx |-> -1]
  ELSE LET maxv == MathMax(values)
           exps == [k \in 1 .. Len(values) |->
                      ExpOver(FSub(values[k], maxv), temp)]
           raw == SumSeq(exps)
           \* (sum || 1): 0 and NaN are falsy
           sum == IF raw = 0 \/ IsNaN(raw) THEN ExpScale ELSE raw
       IN [weights |-> [k \in 1 .. Len(values) |-> FDivScaled(exps[k], sum)],
           bestIdx |-> IndexOf(values, MathMax(values))]

\* insertion of v into a list sorted by the comparator (a, b) => b - a
RECURSIVE InsertDesc(_, _)
InsertDesc(v, sorted) ==
  IF Len(sorted) = 0 THEN <<v>>
  ELSE IF v > Head(sorted) THEN <<v>> \o sorted
  ELSE <<Head(sorted)>> \o InsertDesc(v, Tail(sorted))

RECURSIVE InsertAsc(_, _)
InsertAsc(v, sorted) ==
  IF Len(sorted) = 0 THEN <<v>>
  ELSE IF v < Head(sorted) THEN <<v>> \o sorted
  ELSE <<Head(sorted)>> \o InsertAsc(v, Tail(sorted))

\* faulty variant: the comparator is (a, b) => a - b
RECURSIVE SortedAsc(_)
SortedAsc(values) ==
  IF Len(values) = 0 THEN <<>>
  ELSE InsertAsc(Head(values), SortedAsc(Tail(values)))

\* [...pr].sort((a, b) => b - a), line 1310 (for values that are not NaN)
RECURSIVE SortedDesc(_)
SortedDesc(values) ==
  IF Len(values) = 0 THEN <<>>
  ELSE InsertDesc(Head(values), SortedDesc(Tail(values)))

\* faulty variant: the thresholds are not strict
QualityTier_NonStrict(best) ==
  IF FGe(best, cdB(-70)) THEN "excellent"
  ELSE IF FGe(best, cdB(-85)) THEN "good"
  ELSE IF FGe(best, cdB(-100)) THEN "fair"
  ELSE IF FGe(best, MIN_POWER_DBM) THEN "poor"
  ELSE "dead"

\* lines 1315-1320
QualityTier(best) ==
  IF FGt(best, cdB(-70)) THEN "excellent"
  ELSE IF FGt(best, cdB(-85)) THEN "good"
  ELSE IF FGt(best, cdB(-100)) THEN "fair"
  ELSE IF FGt(best, MIN_POWER_DBM) THEN "poor"
  ELSE "dead"

\* faulty variant: the 3 dB threshold is strict
HandoverStable_Strict(margin) == FGt(margin, 300)
\* line 1323
HandoverStable(margin) == FGe(margin, 300)

\* faulty variant: an obstructed path loses nothing more
ProbeVal_NoWall(t) == FSub(t.powerDbm, fsplDb(t.dist, t.freqMHz))

\* lines 1291-1298: the received power of one transmitter
ProbeVal(t) ==
  FSub(t.powerDbm,
       FAdd(fsplDb(t.dist, t.freqMHz), IF t.blocked THEN WALL_LOSS_DB ELSE 0))

\* lines 1300-1306: dist is kept in tenths of a metre (dist.toFixed(1))
ProbeRow(t, k) ==
  [idx |-> k, pr |-> ProbeVal(t), los |-> ~t.blocked, dist |-> t.dist * 10,
   freq |-> t.freqMHz]

probeAtWithRc(txList) ==
  LET pr == [k \in 1 .. Len(txList) |-> ProbeVal(txList[k])]
      rows == [k \in 1 .. Len(txList) |-> ProbeRow(txList[k], k)]
      sm == softmaxDbm(pr, 4)
      sorted == SortedDesc(pr)
      best == IF Len(sorted) >= 1 THEN sorted[1] ELSE -Infinity
      secondBest == IF Len(sorted) >= 2 THEN sorted[2] ELSE best
      margin == FSub(best, secondBest)
  IN [ rows |-> rows,
       bestIdx |-> (IF sm.bestIdx >= 0 THEN sm.bestIdx ELSE 0) + 1,
       margin |-> margin,
       bestPower |-> best,
       qualityTier |-> QualityTier(best),
       interferenceCount |->
         Cardinality({k \in 1 .. Len(pr) : FGt(pr[k], cdB(-80))}),
       handoverStable |-> HandoverStable(margin),
       weights |-> sm.weights ]

NoPayload == probeAtWithRc(<<>>)

\* ---- the explain-rf route (route.ts) ----
\* route.ts lines 8-11, the distance in whole metres as above
routeFsplDb(dMeters, fMHz) ==
  FAdd(FAdd(3240, TwentyLog10(fMHz)), TwentyLog10(Max(dMeters, 1)) - 6000)

\* route.ts lines 8-11 with the distance in millimetres
routeFsplDbMm(dMm, fMHz) ==
  FAdd(FAdd(3240, TwentyLog10(fMHz)), TwentyLog10(Max(dMm, 1000)) - 12000)

\* parseFloat(x.toFixed(1)): the nearest tenth of a dB (the inputs of the
\* model have no value half-way between two tenths)
ToFixed1(x) ==
  IF ~IsFinite(x) THEN x
  ELSE IF x >= 0 THEN ((x + 5) \div 10) * 10
  ELSE -(((-x + 5) \div 10) * 10)

\* route.ts lines 57-62
routeQuality(receivedPower) ==
  IF FGt(receivedPower, cdB(-70)) THEN "excellent"
  ELSE IF FGt(receivedPower, cdB(-85)) THEN "good"
  ELSE IF FGt(receivedPower, cdB(-100)) THEN "fair"
  ELSE IF FGt(receivedPower, cdB(-110)) THEN "poor"
  ELSE "dead"

\* route.ts lines 50-73: every path is taken as line-of-sight
routeAnalysis(t, k) ==
  LET pathLoss == routeFsplDb(t.dist, t.freqMHz)
      receivedPower == FSub(t.powerDbm, pathLoss)
  IN [id |-> k, distance |-> t.dist, pathLoss |-> ToFixed1(pathLoss),
      receivedPower |-> ToFixed1(receivedPower),
      quality |-> routeQuality(receivedPower),
      frequency |-> t.freqMHz, transmitPower |-> t.powerDbm]

\* route.ts lines 76-78: a stable sort, best rounded power first
RECURSIVE InsertAnalysis(_, _)
InsertAnalysis(a, sorted) ==
  IF Len(sorted) = 0 THEN <<a>>
  ELSE IF a.receivedPower >= Head(sorted).receivedPower THEN <<a>> \o sorted
  ELSE <<Head(sorted)>> \o InsertAnalysis(a, Tail(sorted))

RECURSIVE SortAnalyses(_)
SortAnalyses(an) ==
  IF Len(an) = 0 THEN <<>>
  ELSE InsertAnalysis(Head(an), SortAnalyses(Tail(an)))

\* route.ts lines 80-110
routeContext(txList) ==
  LET an == SortAnalyses([k \in 1 .. Len(txList) |-> routeAnalysis(txList[k], k)])
      margin == IF Len(an) >= 2
                THEN FSub(an[1].receivedPower, an[2].receivedPower)
                ELSE Infinity
  IN [ bestSignal |-> [txId |-> an[1].id, power |-> an[1].receivedPower,
                       quality |-> an[1].quality],
       margin |-> margin,
       allTransmitters |-> an,
       interferenceCount |->
         Cardinality({k \in 1 .. Len(an) : FGt(an[k].receivedPower, cdB(-80))}),
       handoverStable |-> FGe(margin, 300) ]

NoResponse == [status |-> 0, context |-> <<>>]

\* route.ts POST (lines 24-193): 400 without transmitters, 200 with the
\* analysis, 500 when the generation throws
RoutePost(aiOk) ==
  /\ routeRes = NoResponse
  /\ routeRes' =
       IF Len(ptxs) = 0 THEN [status |-> 400, context |-> <<>>]
       ELSE IF aiOk THEN [status |-> 200, context |-> routeContext(ptxs)]
       ELSE [status |-> 500, context |-> <<>>]
  /\ UNCHANGED <<ptxs, probeDone, payload>>

ProbeInitWith(inputs) ==
  /\ ptxs \in inputs
  /\ probeDone = FALSE
  /\ payload = NoPayload
  /\ routeRes = NoResponse

ProbeInit == ProbeInitWith(SeqsUpTo(ProbeTxSet, MaxProbeTx))
\* probeAtWithRc not called
ProbeIdle == ProbeInitWith({<<>>})

\* one call of probeAtWithRc
ProbeAt ==
  /\ ~probeDone
  /\ payload' = probeAtWithRc(ptxs)
  /\ probeDone' = TRUE
  /\ UNCHANGED <<ptxs, routeRes>>

\* ---------------------------------------------------------------------
\* buildRayBundle (lines 652-725), one step per loop iteration
\* ---------------------------------------------------------------------
RayInitWith(txSet, meshSet) ==
  /\ rtx \in txSet
  /\ rmeshes \in meshSet
  /\ rayPc = "entry"
  /\ rayIdx = 0
  /\ power = 0
  /\ hops = <<>>
  /\ bounces = 0
  /\ first = TRUE
  /\ bundles = <<>>

RayInit == RayInitWith(RayTxSet, BOOLEAN)
\* buildRayBundle not called
RayIdle == RayInitWith({[powerDbm |-> DEFAULT_PWR, freqMHz |-> DEFAULT_FREQ]}, {FALSE})

\* lines 664-670: the per-direction initialisation
RayStart(idx) ==
  /\ rayIdx' = idx
  /\ power' = rtx.powerDbm
  /\ hops' = <<>>
  /\ bounces' = 0
  /\ first' = TRUE
  /\ rayPc' = IF idx < RayCount THEN "while" ELSE "return"

\* line 658: if (!meshes.length) return []
BuildEnter ==
  /\ rayPc = "entry"
  /\ IF rmeshes
       THEN RayStart(0)
       ELSE /\ rayPc' = "return"
            /\ UNCHANGED <<rayIdx, power, hops, bounces, first>>
  /\ UNCHANGED <<rtx, rmeshes, bundles>>

\* faulty variants of the while condition: no power test; one bounce too many
WhileCond_NoFloor == bounces <= MAX_BOUNCES
WhileCond_OffByOne == bounces <= MAX_BOUNCES + 1 /\ FGt(power, MIN_POWER_DBM)

\* line 672: the while condition
WhileCond == bounces <= MAX_BOUNCES /\ FGt(power, MIN_POWER_DBM)

\* faulty variant: the reflection loss is subtracted on the first hop too
PowerAfterHop_AlwaysRefl(pw, isFirst, d, s) ==
  FSub(FSub(pw, fsplDb(d, rtx.freqMHz)),
       materialReflectionLossDb(s.mat, s.grazing))

\* the power after a hop of length d on surface s (lines 679-687)
PowerAfterHop(pw, isFirst, d, s) ==
  LET afterFspl == FSub(pw, fsplDb(d, rtx.freqMHz))
  IN IF isFirst THEN afterFspl
     ELSE FSub(afterFspl, materialReflectionLossDb(s.mat, s.grazing))

\* the RayHop pushed at lines 689-700
MakeHop(pw, isFirst, d, s) ==
  [ distance |-> d,
    fsplLoss |-> fsplDb(d, rtx.freqMHz),
    reflLoss |-> IF isFirst THEN 0
                 ELSE materialReflectionLossDb(s.mat, s.grazing),
    material |-> HopMaterial(isFirst, s.mat),
    prAfter |-> PowerAfterHop(pw, isFirst, d, s) ]

\* lines 672-718 with a hit: one iteration of the while loop
RayHopStep(d, s) ==
  /\ rayPc = "while"
  /\ WhileCond
  /\ d <= RAY_FAR
  /\ LET hop == MakeHop(power, first, d, s)
     IN /\ power' = hop.prAfter
        /\ hops' = Append(hops, hop)
        /\ first' = FALSE
        /\ bounces' = bounces + 1
        /\ rayPc' = IF FLe(hop.prAfter, MIN_POWER_DBM) THEN "emit" ELSE "while"
  /\ UNCHANGED <<rtx, rmeshes, rayIdx, bundles>>

\* line 676: if (!hits.length) break
RayMiss ==
  /\ rayPc = "while"
  /\ WhileCond
  /\ rayPc' = "emit"
  /\ UNCHANGED <<rtx, rmeshes, rayIdx, power, hops, bounces, first, bundles>>

\* line 672: the while condition is false
RayWhileExit ==
  /\ rayPc = "while"
  /\ ~WhileCond
  /\ rayPc' = "emit"
  /\ UNCHANGED <<rtx, rmeshes, rayIdx, power, hops, bounces, first, bundles>>

\* line 721 and the next turn of the for loop
RayEmit ==
  /\ rayPc = "emit"
  /\ bundles' = IF Len(hops) > 0 THEN Append(bundles, hops) ELSE bundles
  /\ RayStart(rayIdx + 1)
  /\ UNCHANGED <<rtx, rmeshes>>

\* ---------------------------------------------------------------------
\* The transmitter set, the mobility controller and the Scene rebuild
\* effect (lines 413-458, 910-923, 1507-1524, 2335-2402, 2584-2614,
\* 2735-2761).  Positions are whole metres on a line.
\* ---------------------------------------------------------------------
\* most transmitters in the set
MaxTx == 2
\* most state updates of the transmitter set in one run
MaxEdits == 3
\* most setTimeout callbacks pending at once
MaxTimers == 2

\* where a transmitter can be placed
PosSet == {0, 20}
\* where the user clicks to remove the nearest transmitter
ClickSet == {20}
\* values typed into the power and frequency inputs
PwrInputs == {cdB(20)}
FreqInputs == {900}
\* frame times in milliseconds
DtSet == {200}
\* the waypoint loop of a moving transmitter and its speed in m/s
WaypointPath == <<0, 20>>
WaypointSpeed == 5 * 10

Abs(x) == IF x < 0 THEN -x ELSE x

StaticMobility ==
  [kind |-> "static", points |-> <<>>, speed |-> 0, currentIdx |-> 0,
   progress |-> 0]
WaypointMobility ==
  [kind |-> "waypoint", points |-> WaypointPath, speed |-> WaypointSpeed,
   currentIdx |-> 0, progress |-> 0]
MobilitySet == {StaticMobility, WaypointMobility}

\* makeTx (lines 910-923)
makeTx(id, pos, mobility) ==
  [id |-> id, pos |-> pos, powerDbm |-> DEFAULT_PWR, freqMHz |-> DEFAULT_FREQ,
   mobility |-> mobility]

\* lines 1513-1514
BASE_RAYS == 260
\* faulty variant: the count is not held at the minimum
raysPerTx_NoFloor(n) == BASE_RAYS - (n - 1) * 60
raysPerTx(n) == Max(120, BASE_RAYS - (n - 1) * 60)
\* ControlPanel's copy of the count, shown in the panel (lines 2330-2332)
panelRaysPerTx(n) == Max(120, BASE_RAYS - Max(0, n - 1) * 60)

\* what buildRayBundle(t, meshes, raysPerTx, MAX_BOUNCES) is computed from:
\* the bundles are a function of these arguments
BundleOf(t, rays) ==
  [pos |-> t.pos, powerDbm |-> t.powerDbm, freqMHz |-> t.freqMHz,
   rays |-> rays]

TxIds(arr) == { arr[k].id : k \in 1 .. Len(arr) }
TxById(arr, id) == arr[CHOOSE k \in 1 .. Len(arr) : arr[k].id = id]

\* lines 1519-1522: the map the effect computes from the transmitter set
BuildMap(arr) ==
  [id \in TxIds(arr) |-> BundleOf(TxById(arr, id), raysPerTx(Len(arr)))]

\* lines 1517-1524: the effect runs after a render in which txs, meshes or
\* raysPerTx changed; it computes the map and defers its publication
RebuildEffect(arr, ready, pending) ==
  IF ready THEN Append(pending, BuildMap(arr)) ELSE pending

\* a state update setTxs(next) with a new array, the render and the effect
SetTxs(next) ==
  /\ Len(timers) < MaxTimers
  /\ edits < MaxEdits
  /\ edits' = edits + 1
  /\ txs' = next
  /\ timers' = RebuildEffect(next, meshesReady, timers)
  /\ UNCHANGED <<meshesReady, bundlesByTx>>

\* useCityGeometry (lines 608-634): the meshes are collected once the model
\* is there; the effect depends on meshes
LoadModel ==
  /\ ~meshesReady
  /\ Len(timers) < MaxTimers
  /\ meshesReady' = TRUE
  /\ timers' = RebuildEffect(txs, TRUE, timers)
  /\ UNCHANGED <<txs, nextId, edits, bundlesByTx>>

\* handleAddTxHere (2735-2740) and addRandomTx (2377-2390)
AddTx(pos, mobility) ==
  /\ Len(txs) < MaxTx
  /\ nextId' = nextId + 1
  /\ SetTxs(Append(txs, makeTx(nextId + 1, pos, mobility)))

\* the nearest transmitter to p (lines 2747-2755): the first of the closest
NearestIdx(arr, p) ==
  CHOOSE k \in 1 .. Len(arr) :
    /\ \A j \in 1 .. Len(arr) : Abs(arr[k].pos - p) <= Abs(arr[j].pos - p)
    /\ \A j \in 1 .. (k - 1) : Abs(arr[j].pos - p) > Abs(arr[k].pos - p)

RemoveAt(arr, k) ==
  [j \in 1 .. (Len(arr) - 1) |-> IF j < k THEN arr[j] ELSE arr[j + 1]]

\* handleRemoveNearestTx (2742-2761): an empty array is returned as it is,
\* which is no state change
RemoveNearestTx(p) ==
  /\ Len(txs) > 0
  /\ SetTxs(RemoveAt(txs, NearestIdx(txs, p)))
  /\ UNCHANGED nextId

\* clearAll (2392-2394)
ClearAll ==
  /\ SetTxs(<<>>)
  /\ UNCHANGED nextId

\* preset("URBAN") (2340-2345): one fresh transmitter replaces the set
PresetUrban(pos) ==
  /\ meshesReady
  /\ nextId' = nextId + 1
  /\ SetTxs(<<makeTx(nextId + 1, pos, StaticMobility)>>)

\* the power input's onBlur (2589-2597)
EditPower(k, v) ==
  /\ k \in 1 .. Len(txs)
  /\ SetTxs([txs EXCEPT ![k].powerDbm = v])
  /\ UNCHANGED nextId

\* the frequency input's onBlur (2605-2613)
EditFreq(k, v) ==
  /\ k \in 1 .. Len(txs)
  /\ SetTxs([txs EXCEPT ![k].freqMHz = v])
  /\ UNCHANGED nextId

\* progress is kept in thousandths; speed * dt / max(dist, 1e-6) with speed
\* in m/s, dt in ms and dist in m
ProgressStep(speed, dt, dist) ==
  IF dist = 0 THEN (IF speed * dt > 0 THEN 1000 ELSE 0)
  ELSE (speed * dt) \div dist

\* lerpVectors(from, to, progress)
Lerp(from, to, progress) == from + ((to - from) * progress) \div 1000

\* faulty variant: the progress beyond 1 is carried to the next segment
WrapProgress_Carry(moved) == moved - 1000
\* line 448
WrapProgress(moved) == 0

\* faulty variant: a segment is skipped
NextIdx_Skip(idx, n) == (idx + 2) % n
\* line 449
NextIdx(idx, n) == (idx + 1) % n

\* MovingTxController, one transmitter (lines 421-453)
AdvanceTx(t, dt) ==
  LET m == t.mobility
      n == Len(m.points)
  IN IF m.kind # "waypoint" \/ n < 2 THEN t
     ELSE LET from == m.points[m.currentIdx + 1]
              to == m.points[((m.currentIdx + 1) % n) + 1]
              dist == Abs(from - to)
              moved == m.progress + ProgressStep(m.speed, dt, dist)
              wrap == moved >= 1000
              progress == IF wrap THEN WrapProgress(moved) ELSE moved
              idx == IF wrap THEN NextIdx(m.currentIdx, n) ELSE m.currentIdx
          IN [t EXCEPT !.mobility.progress = progress,
                       !.mobility.currentIdx = idx,
                       !.pos = Lerp(from, to, progress)]

\* MovingTxController's useFrame (lines 416-455): the transmitters are
\* mutated in place; no state update, no render, no effect
FrameTick(dt) ==
  /\ txs' = [k \in 1 .. Len(txs) |-> AdvanceTx(txs[k], dt)]
  /\ txs' # txs
  /\ UNCHANGED <<nextId, edits, meshesReady, timers, bundlesByTx>>

\* a deferred setBundlesByTx(map) runs (line 1523); timers of equal delay
\* run in the order they were set
\* faulty variant: the timer set last runs first
NextTimer_Last(pending) == Len(pending)
\* which pending timer runs next: the one set first
NextTimer(pending) == 1

TimerFire ==
  /\ Len(timers) > 0
  /\ bundlesByTx' = timers[NextTimer(timers)]
  /\ timers' = RemoveAt(timers, NextTimer(timers))
  /\ UNCHANGED <<txs, nextId, edits, meshesReady>>

\* most waypoints of a moving transmitter
MaxWaypoints == 3
\* where waypoints can lie, the speeds in m/s and the frame times in ms of
\* the mobility runs
WaypointSet == {0, 20, 40}
SpeedSet == {0, 50, 100}
MobDtSet == {0, 100, 200, 1000}

\* the waypoint mobilities a transmitter can be made with (lines 58-64)
MobilityInputs ==
  { [kind |-> "waypoint", points |-> pts, speed |-> sp, currentIdx |-> 0,
     progress |-> 0] :
      pts \in SeqsUpTo(WaypointSet, MaxWaypoints) \ {<<>>}, sp \in SpeedSet }

\* one moving transmitter, no geometry yet
MobilityInit ==
  /\ \E mob \in MobilityInputs : txs = <<makeTx(1, mob.points[1], mob)>>
  /\ nextId = 1
  /\ edits = 0
  /\ meshesReady = FALSE
  /\ timers = <<>>
  /\ bundlesByTx = <<>>

SceneInit ==
  /\ txs = <<>>
  /\ nextId = 0
  /\ edits = 0
  /\ meshesReady = FALSE
  /\ timers = <<>>
  /\ bundlesByTx = <<>>

\* ---------------------------------------------------------------------
\* PathMover's useFrame and handleCarProbe (lines 1188-1257, 2687-2723)
\* ---------------------------------------------------------------------
\* the time at which the probe vehicle is mounted
StartTime == 500
\* the longest time followed from then on
MaxElapsed == 400

\* frame times of the render loop, in milliseconds
CarDtSet == {16, 50, 120}
\* the paths the user has laid out
CarPathSet == { <<0>>, <<0, 7000>>, <<0, 7000, 3500>> }

CAR_SPEED == 35
PROBE_HZ == 10

\* lines 1188-1206: the segments of the path and their total length
CarSegments(points) ==
  [k \in 1 .. (Len(points) - 1) |->
     [from |-> points[k], to |-> points[k + 1],
      length |-> Max(Abs(points[k] - points[k + 1]), 1)]]

RECURSIVE SegStart(_, _)
SegStart(segs, k) ==
  IF k = 1 THEN 0 ELSE SegStart(segs, k - 1) + segs[k - 1].length

CarTotal(points) ==
  IF Len(points) < 2 THEN 0
  ELSE SegStart(CarSegments(points), Len(points) - 1)
       + CarSegments(points)[Len(points) - 1].length

\* lines 1219-1235: the position at distance d0 of the ping-pong cycle
CarPosAt(points, d0) ==
  LET segs == CarSegments(points)
      total == CarTotal(points)
      d == IF d0 > total THEN 2 * total - d0 ELSE d0
      inside == { k \in 1 .. Len(segs) :
                    d >= SegStart(segs, k) /\ d <= SegStart(segs, k) + segs[k].length }
      k == IF inside = {} THEN Len(segs)
           ELSE CHOOSE j \in inside : \A m \in inside : j <= m
      seg == segs[k]
  IN seg.from + ((seg.to - seg.from) * (d - SegStart(segs, k))) \div seg.length

\* the payload probeAtWithRc computes at a position, for the transmitters
\* and geometry of the scene: a function of the position
CarPayload(pos) == [at |-> pos]

\* line 2717: the throttle of handleCarProbe
ThrottleOpen(now, last) == now - last > 1000 \div PROBE_HZ

\* one frame of PathMover (lines 1210-1257) with the onProbe callback,
\* handleCarProbe (lines 2714-2723), it calls
CarFrame(dt) ==
  /\ clock + dt <= StartTime + MaxElapsed
  /\ clock' = clock + dt
  /\ UNCHANGED <<carPath, carProbing>>
  /\ IF Len(carPath) < 2 \/ CarTotal(carPath) <= 0
       THEN UNCHANGED <<distRef, tmpPos, lastProbeTs, carProbe, callTs, callGap>>
       ELSE LET d == (distRef + CAR_SPEED * dt) % (2 * CarTotal(carPath))
                pos == CarPosAt(carPath, d)
            IN /\ distRef' = d
               /\ tmpPos' = pos
               /\ IF carProbing
                    THEN /\ callTs' = clock'
                         /\ callGap' = IF callTs = -1 THEN -1 ELSE clock' - callTs
                         /\ IF ThrottleOpen(clock', lastProbeTs)
                              THEN /\ carProbe' = [pos |-> "tmpPos",
                                                   payload |-> CarPayload(pos)]
                                   /\ lastProbeTs' = clock'
                              ELSE UNCHANGED <<carProbe, lastProbeTs>>
                    ELSE UNCHANGED <<lastProbeTs, carProbe, callTs, callGap>>

NoCarProbe == [pos |-> "null", payload |-> CarPayload(0)]

CarInitWith(paths, probing) ==
  /\ carPath \in paths
  /\ carProbing \in probing
  /\ clock = StartTime
  /\ distRef = 0
  /\ tmpPos = 0
  /\ lastProbeTs = 0
  /\ carProbe = NoCarProbe
  /\ callTs = -1
  /\ callGap = -1

CarInit == CarInitWith(CarPathSet, BOOLEAN)
\* no probe vehicle
CarIdle == CarInitWith({<<>>}, {FALSE})

\* ---------------------------------------------------------------------
\* PathRfOverlay (lines 1338-1411): the path is resampled, every sample is
\* probed and a marker is dropped where the best server changes.
\* A position is a distance x along a line and a height y, whole metres.
\* ---------------------------------------------------------------------
\* most points of a drawn path
MaxOverlayPoints == 3
\* where path points on the ground can lie
OverlayPointSet == {0, 12, 24}

\* a THREE.Vector3 in the vertical plane of the line
Pt(x, y) == [x |-> x, y |-> y]

\* a.distanceTo(b); the positions of the model are chosen so that the
\* distance is a whole number of metres
Dist(a, b) ==
  LET dx == Abs(a.x - b.x)
      dy == Abs(a.y - b.y)
  IN IF dy = 0 THEN dx
     ELSE IF dx = 0 THEN dy
     ELSE CHOOSE r \in 0 .. (dx + dy) : r * r = dx * dx + dy * dy

\* paths drawn on the ground
GroundPathSet ==
  { [k \in 1 .. Len(xs) |-> Pt(xs[k], 0)] :
      xs \in SeqsUpTo(OverlayPointSet, MaxOverlayPoints) }
\* paths with a point clicked on a roof 5 m above the ground
RoofPathSet ==
  { <<Pt(12, 0), Pt(12, 5)>>, <<Pt(12, 0), Pt(12, 5), Pt(12, 0)>> }
OverlayPathSet == GroundPathSet \cup RoofPathSet

OverlayTx(pos, pwr) == [pos |-> pos, powerDbm |-> pwr, freqMHz |-> DEFAULT_FREQ]
OverlayTxSet ==
  { <<>>,
    <<OverlayTx(Pt(0, 0), DEFAULT_PWR)>>,
    <<OverlayTx(Pt(0, 0), DEFAULT_PWR), OverlayTx(Pt(24, 0), DEFAULT_PWR)>>,
    <<OverlayTx(Pt(24, 0), DEFAULT_PWR), OverlayTx(Pt(0, 0), DEFAULT_PWR)>>,
    <<OverlayTx(Pt(0, 0), cdB(20)), OverlayTx(Pt(24, 0), DEFAULT_PWR)>> }
\* a transmitter on the ground and a weaker one on the roof
RoofTxSet ==
  { <<OverlayTx(Pt(0, 0), DEFAULT_PWR), OverlayTx(Pt(12, 5), cdB(20))>> }
\* the meshes: none, one wall at 10 m, one wall away from the path
OverlayMeshSet == { {}, {10}, {100} }

\* line 1379
STEP == 6

\* Math.ceil(segLen / STEP) with segLen = Math.max(dist, 1e-6) (line 1385)
CeilSteps(dist) == IF dist = 0 THEN 1 ELSE (dist + STEP - 1) \div STEP

\* line 1386
SampleCount(a, b) == Max(2, CeilSteps(Dist(a, b)))

\* lines 1389-1392: lerpVectors(a, b, k / (count - 1)), then p.y is set to
\* the height of the segment's first point
SampleAt(a, b, k, count) ==
  Pt(a.x + ((b.x - a.x) * k) \div (count - 1), a.y)

\* lines 1290-1296: the ray from p towards the transmitter meets a wall
\* that stands strictly between them (rc.far = max(dist - 0.25, 0.25))
WallBetween(p, q, meshes) ==
  \E w \in meshes : (p.x < w /\ w < q.x) \/ (q.x < w /\ w < p.x)

\* probeAt (lines 1338-1345)
probeAt(p, txList, meshes) ==
  probeAtWithRc([k \in 1 .. Len(txList) |->
     [powerDbm |-> txList[k].powerDbm, freqMHz |-> txList[k].freqMHz,
      dist |-> Dist(txList[k].pos, p),
      blocked |-> WallBetween(p, txList[k].pos, meshes)]])

\* colorForDbm (lines 1350-1356)
colorForDbm(dbm) ==
  IF FLe(dbm, cdB(-100)) THEN "#ef4444"
  ELSE IF FLe(dbm, cdB(-90)) THEN "#f97316"
  ELSE IF FLe(dbm, cdB(-80)) THEN "#f59e0b"
  ELSE "#22c55e"

\* faulty variant: the first sample is compared with the initial -1 too
HandoverTest_NoFirstGuard(last, bestIdx) == bestIdx # last

\* line 1399
HandoverTest(last, bestIdx) == last # -1 /\ bestIdx # last

OverlayInitWith(paths, txSets, meshSets) ==
  /\ opoints \in paths
  /\ otxs \in txSets
  /\ omeshes \in meshSets
  /\ opc = "start"
  /\ oi = 0
  /\ ok = 0
  /\ lastBest = -1
  /\ outPts = <<>>
  /\ outCols = <<>>
  /\ hMarkers = <<>>

OverlayInit ==
  \/ OverlayInitWith(OverlayPathSet, OverlayTxSet, OverlayMeshSet)
  \/ OverlayInitWith(RoofPathSet, RoofTxSet, OverlayMeshSet)
\* no path overlay
OverlayIdle == OverlayInitWith({<<>>}, {<<>>}, {{}})

\* lines 1371-1380: the early return and the start of the loops
OverlayEnter ==
  /\ opc = "start"
  /\ opc' = IF Len(opoints) < 2 \/ Len(otxs) = 0 \/ omeshes = {}
            THEN "done" ELSE "loop"
  /\ UNCHANGED <<opoints, otxs, omeshes, oi, ok, lastBest, outPts, outCols,
                 hMarkers>>

\* lines 1383-1407: one pass of the inner loop, with the loop steps
OverlaySample ==
  /\ opc = "loop"
  /\ LET a == opoints[oi + 1]
         b == opoints[oi + 2]
         count == SampleCount(a, b)
         p == SampleAt(a, b, ok, count)
         pl == probeAt(p, otxs, omeshes)
         lastK == ok + 1 >= count
         lastI == oi + 1 >= Len(opoints) - 1
     IN /\ outPts' = Append(outPts, p)
        /\ outCols' = Append(outCols, colorForDbm(pl.bestPower))
        /\ hMarkers' =
             IF HandoverTest(lastBest, pl.bestIdx)
             THEN Append(hMarkers, [pos |-> p, from |-> lastBest, to |-> pl.bestIdx])
             ELSE hMarkers
        /\ lastBest' = pl.bestIdx
        /\ ok' = IF lastK THEN 0 ELSE ok + 1
        /\ oi' = IF lastK THEN oi + 1 ELSE oi
        /\ opc' = IF lastK /\ lastI THEN "done" ELSE "loop"
  /\ UNCHANGED <<opoints, otxs, omeshes>>

\* ---------------------------------------------------------------------
\* fsplDb evaluated at two distances (part_001 lines 115-118, route.ts
\* lines 8-11)
\* ---------------------------------------------------------------------
\* distances in millimetres: 0.25 m, 0.5 m, 1 m, 10 m, 100 m
FsplDistSet == {250, 500, 1000, 10000, 100000}
\* frequencies in MHz, with the zero and the negative value the frequency
\* field accepts
FsplFreqSet == {-1, 0, 24, 900, 2400}

NoFspl == [done |-> FALSE, page1 |-> 0, page2 |-> 0, route1 |-> 0, route2 |-> 0]

FsplInitWith(dists, freqs) ==
  /\ fd1 \in dists
  /\ fd2 \in dists
  /\ ff \in freqs
  /\ fout = NoFspl

FsplInit == FsplInitWith(FsplDistSet, FsplFreqSet)
\* fsplDb not called
FsplIdle == FsplInitWith({1000}, {DEFAULT_FREQ})

\* the page's and the route's fsplDb at both distances
FsplEval ==
  /\ ~fout.done
  /\ fout' = [done |-> TRUE,
              page1 |-> fsplDbMm(fd1, ff), page2 |-> fsplDbMm(fd2, ff),
              route1 |-> routeFsplDbMm(fd1, ff), route2 |-> routeFsplDbMm(fd2, ff)]
  /\ UNCHANGED <<fd1, fd2, ff>>

\* ---------------------------------------------------------------------
\* The placement menu and handleExplainRf (lines 2642, 2655-2680,
\* 2725-2733, 2764-2809, 2836-2851)
\* ---------------------------------------------------------------------
\* most explanation requests issued in one run
MaxRequests == 2
\* where the user clicks the city
MenuPosSet == {0, 20}

\* placementMenu: null, or the clicked position
NoMenu == [open |-> FALSE, worldPos |-> 0]
MenuAt(pos) == [open |-> TRUE, worldPos |-> pos]

\* rfExplanation: null (open is FALSE), or position, analysis and isLoading;
\* req is the request the analysis answers
NoExplanation ==
  [open |-> FALSE, position |-> 0, analysis |-> "null", req |-> 0,
   isLoading |-> FALSE]

\* lines 2770-2774
LoadingExplanation(pos) ==
  [open |-> TRUE, position |-> pos, analysis |-> "null", req |-> 0,
   isLoading |-> TRUE]

\* lines 2796-2800: data.analysis of the response to request id
LoadedExplanation(pos, id) ==
  [open |-> TRUE, position |-> pos, analysis |-> "analysis", req |-> id,
   isLoading |-> FALSE]

\* faulty variant: the failure leaves the loading state on
FailedExplanation_StillLoading(pos) == LoadingExplanation(pos)

\* lines 2803-2807
FailedExplanation(pos) ==
  [open |-> TRUE, position |-> pos, analysis |-> "null", req |-> 0,
   isLoading |-> FALSE]

ExplainInit ==
  /\ placementMenu = NoMenu
  /\ rfExplanation = NoExplanation
  /\ requests = {}
  /\ reqCount = 0

\* no explanation asked for
ExplainIdle == ExplainInit

\* handleCityClick (lines 2725-2733); while the modal is open its backdrop
\* covers the page (lines 2006-2010) and takes the click
OpenMenu(pos) ==
  /\ ~rfExplanation.open
  /\ placementMenu # MenuAt(pos)
  /\ placementMenu' = MenuAt(pos)
  /\ UNCHANGED <<rfExplanation, requests, reqCount>>

\* the menu's onClose (line 2837)
CloseMenu ==
  /\ placementMenu.open
  /\ placementMenu' = NoMenu
  /\ UNCHANGED <<rfExplanation, requests, reqCount>>

\* handleExplainRf up to the fetch (lines 2765-2788): the request carries
\* the transmitters of the render the handler belongs to
ExplainStart ==
  /\ placementMenu.open
  /\ reqCount < MaxRequests
  /\ placementMenu' = NoMenu
  /\ rfExplanation' = LoadingExplanation(placementMenu.worldPos)
  /\ reqCount' = reqCount + 1
  /\ requests' = requests \cup
       {[id |-> reqCount + 1, pos |-> placementMenu.worldPos, ntx |-> Len(txs)]}

\* the response is OK (route.ts lines 170-179: there were transmitters and
\* the generation succeeded), lines 2794-2800
ExplainOk(r) ==
  /\ r \in requests
  /\ r.ntx > 0
  /\ requests' = requests \ {r}
  /\ rfExplanation' = LoadedExplanation(r.pos, r.id)
  /\ UNCHANGED <<placementMenu, reqCount>>

\* the fetch rejects or the response is not OK (route.ts lines 39-47 and
\* 180-192), lines 2790-2792 and 2801-2808
ExplainFail(r) ==
  /\ r \in requests
  /\ requests' = requests \ {r}
  /\ rfExplanation' = FailedExplanation(r.pos)
  /\ UNCHANGED <<placementMenu, reqCount>>

\* the modal's onClose (line 2847)
CloseModal ==
  /\ rfExplanation.open
  /\ rfExplanation' = NoExplanation
  /\ UNCHANGED <<placementMenu, requests, reqCount>>

\* ---------------------------------------------------------------------
\* InterferenceField (lines 928-1030) and its fragment shader (1081-1105)
\* ---------------------------------------------------------------------
\* line 928
MAX_TX == 8
\* most transmitters handed to the field
MaxFieldTx == 9

\* the transmitters the field is given
FieldTxSet ==
  { [pos |-> 0, powerDbm |-> DEFAULT_PWR, freqMHz |-> DEFAULT_FREQ],
    [pos |-> 20, powerDbm |-> cdB(30), freqMHz |-> 900] }

\* Math.sqrt(Math.pow(10, (powerDbm - 30) / 10)) in thousandths, tabulated
\* for the powers of FieldTxSet
AmplitudeOf(powerDbm) ==
  CASE powerDbm = cdB(30) -> 1000
    [] powerDbm = DEFAULT_PWR -> 1995

\* posArray[i].set(1e9, 1e9, 1e9)
OffScreen == 10 ^ 9

Slots == 1 .. MAX_TX

\* faulty variant: every transmitter is counted
FieldCount_All(n) == n
\* lines 979 and 1011
FieldCount(n) == Min(n, MAX_TX)

\* lines 980-992 and 1013-1024: the three arrays written from the
\* transmitter set
FieldPos(arr) ==
  [i \in Slots |-> IF i <= FieldCount(Len(arr)) THEN arr[i].pos ELSE OffScreen]
FieldFreq(arr) ==
  [i \in Slots |-> IF i <= FieldCount(Len(arr)) THEN arr[i].freqMHz * 1000 ELSE 0]
FieldPow(arr) ==
  [i \in Slots |->
     IF i <= FieldCount(Len(arr)) THEN AmplitudeOf(arr[i].powerDbm) ELSE 0]

\* the mount: no transmitter, zeroed arrays (lines 953-957, 963)
FieldInit ==
  /\ ftxs = <<>>
  /\ uTxCount = 0
  /\ uPos = [i \in Slots |-> 0]
  /\ uFreq = [i \in Slots |-> 0]
  /\ uPow = [i \in Slots |-> 0]

\* no interference field
FieldIdle == FieldInit

\* a render with a txs prop of another length: the uniforms are made anew
\* and the effect rewrites the arrays (lines 960-970, 973-1000)
FieldResize(next) ==
  /\ Len(next) # Len(ftxs)
  /\ ftxs' = next
  /\ uTxCount' = FieldCount(Len(next))
  /\ uPos' = FieldPos(next)
  /\ uFreq' = FieldFreq(next)
  /\ uPow' = FieldPow(next)

\* a transmitter is added to the set
FieldAddTx(t) ==
  /\ Len(ftxs) < MaxFieldTx
  /\ FieldResize(Append(ftxs, t))

\* a transmitter is removed from the set
FieldRemoveTx(k) ==
  /\ k \in 1 .. Len(ftxs)
  /\ FieldResize(RemoveAt(ftxs, k))

\* a render with a txs prop of the same length (a transmitter edited):
\* neither the memo nor the effect runs
FieldEditTx(k, t) ==
  /\ k \in 1 .. Len(ftxs)
  /\ ftxs[k] # t
  /\ ftxs' = [ftxs EXCEPT ![k] = t]
  /\ UNCHANGED <<uTxCount, uPos, uFreq, uPow>>

\* useFrame (lines 1003-1030)
FieldFrame ==
  /\ uTxCount' = FieldCount(Len(ftxs))
  /\ uPos' = FieldPos(ftxs)
  /\ uFreq' = FieldFreq(ftxs)
  /\ uPow' = FieldPow(ftxs)
  /\ <<uTxCount', uPos', uFreq', uPow'>> # <<uTxCount, uPos, uFreq, uPow>>
  /\ UNCHANGED ftxs

\* the slots the shader's loop adds to the field (lines 1081-1087)
ShaderSlots == { i \in Slots : i - 1 < uTxCount /\ uFreq[i] > 0 }

\* ---------------------------------------------------------------------
\* Specifications: one per component, the other components not running
\* ---------------------------------------------------------------------
RayNext ==
  \/ BuildEnter /\ UNCHANGED <<probeVars, sceneVars, carVars, overlayVars, fsplVars, explainVars, fieldVars>>
  \/ \E d \in DistSet, s \in SurfaceSet :
       RayHopStep(d, s) /\ UNCHANGED <<probeVars, sceneVars, carVars, overlayVars, fsplVars, explainVars, fieldVars>>
  \/ RayMiss /\ UNCHANGED <<probeVars, sceneVars, carVars, overlayVars, fsplVars, explainVars, fieldVars>>
  \/ RayWhileExit /\ UNCHANGED <<probeVars, sceneVars, carVars, overlayVars, fsplVars, explainVars, fieldVars>>
  \/ RayEmit /\ UNCHANGED <<probeVars, sceneVars, carVars, overlayVars, fsplVars, explainVars, fieldVars>>

RayOnlyInit == RayInit /\ ProbeIdle /\ SceneInit /\ CarIdle /\ OverlayIdle /\ FsplIdle /\ ExplainIdle /\ FieldIdle

SpecRay == RayOnlyInit /\ [][RayNext]_vars

ProbeNext ==
  \/ ProbeAt /\ UNCHANGED <<rayVars, sceneVars, carVars, overlayVars, fsplVars, explainVars, fieldVars>>
  \/ \E aiOk \in BOOLEAN :
       RoutePost(aiOk) /\ UNCHANGED <<rayVars, sceneVars, carVars, overlayVars, fsplVars, explainVars, fieldVars>>

ProbeOnlyInit == ProbeInit /\ RayIdle /\ SceneInit /\ CarIdle /\ OverlayIdle /\ FsplIdle /\ ExplainIdle /\ FieldIdle

SpecProbe == ProbeOnlyInit /\ [][ProbeNext]_vars

Next ==
  \/ LoadModel /\ UNCHANGED <<rayVars, probeVars, carVars, overlayVars, fsplVars, explainVars, fieldVars>>
  \/ \E pos \in PosSet, mob \in MobilitySet :
       AddTx(pos, mob) /\ UNCHANGED <<rayVars, probeVars, carVars, overlayVars, fsplVars, explainVars, fieldVars>>
  \/ \E p \in ClickSet : RemoveNearestTx(p) /\ UNCHANGED <<rayVars, probeVars, carVars, overlayVars, fsplVars, explainVars, fieldVars>>
  \/ ClearAll /\ UNCHANGED <<rayVars, probeVars, carVars, overlayVars, fsplVars, explainVars, fieldVars>>
  \/ \E pos \in PosSet : PresetUrban(pos) /\ UNCHANGED <<rayVars, probeVars, carVars, overlayVars, fsplVars, explainVars, fieldVars>>
  \/ \E k \in 1 .. MaxTx, v \in PwrInputs :
       EditPower(k, v) /\ UNCHANGED <<rayVars, probeVars, carVars, overlayVars, fsplVars, explainVars, fieldVars>>
  \/ \E k \in 1 .. MaxTx, v \in FreqInputs :
       EditFreq(k, v) /\ UNCHANGED <<rayVars, probeVars, carVars, overlayVars, fsplVars, explainVars, fieldVars>>
  \/ \E dt \in DtSet : FrameTick(dt) /\ UNCHANGED <<rayVars, probeVars, carVars, overlayVars, fsplVars, explainVars, fieldVars>>
  \/ TimerFire /\ UNCHANGED <<rayVars, probeVars, carVars, overlayVars, fsplVars, explainVars, fieldVars>>

Init == RayIdle /\ ProbeIdle /\ SceneInit /\ CarIdle /\ OverlayIdle /\ FsplIdle /\ ExplainIdle /\ FieldIdle

Spec == Init /\ [][Next]_vars

CarNext ==
  \E dt \in CarDtSet : CarFrame(dt) /\ UNCHANGED <<rayVars, probeVars, sceneVars, overlayVars, fsplVars, explainVars, fieldVars>>

CarOnlyInit == RayIdle /\ ProbeIdle /\ SceneInit /\ CarInit /\ OverlayIdle /\ FsplIdle /\ ExplainIdle /\ FieldIdle

SpecCar == CarOnlyInit /\ [][CarNext]_vars

MobilityNext ==
  \E dt \in MobDtSet :
    FrameTick(dt) /\ UNCHANGED <<rayVars, probeVars, carVars, overlayVars, fsplVars, explainVars, fieldVars>>

MobilityOnlyInit == RayIdle /\ ProbeIdle /\ MobilityInit /\ CarIdle /\ OverlayIdle /\ FsplIdle /\ ExplainIdle /\ FieldIdle

SpecMobility == MobilityOnlyInit /\ [][MobilityNext]_vars

FsplNext ==
  FsplEval /\ UNCHANGED <<rayVars, probeVars, sceneVars, carVars, overlayVars, explainVars, fieldVars>>

FsplOnlyInit ==
  RayIdle /\ ProbeIdle /\ SceneInit /\ CarIdle /\ OverlayIdle /\ FsplInit /\ ExplainIdle /\ FieldIdle

SpecFspl == FsplOnlyInit /\ [][FsplNext]_vars

\* the page with its transmitter set and the explanation requests
ExplainFrame == <<rayVars, probeVars, carVars, overlayVars, fsplVars, fieldVars>>

ExplainNext ==
  \/ \E pos \in MenuPosSet : OpenMenu(pos) /\ UNCHANGED <<sceneVars, ExplainFrame>>
  \/ CloseMenu /\ UNCHANGED <<sceneVars, ExplainFrame>>
  \/ ExplainStart /\ UNCHANGED <<sceneVars, ExplainFrame>>
  \/ \E r \in requests : ExplainOk(r) /\ UNCHANGED <<sceneVars, ExplainFrame>>
  \/ \E r \in requests : ExplainFail(r) /\ UNCHANGED <<sceneVars, ExplainFrame>>
  \/ CloseModal /\ UNCHANGED <<sceneVars, ExplainFrame>>
  \/ LoadModel /\ UNCHANGED <<explainVars, ExplainFrame>>
  \/ \E pos \in ClickSet :
       AddTx(pos, StaticMobility) /\ UNCHANGED <<explainVars, ExplainFrame>>
  \/ ClearAll /\ UNCHANGED <<explainVars, ExplainFrame>>
  \/ TimerFire /\ UNCHANGED <<explainVars, ExplainFrame>>

ExplainOnlyInit ==
  RayIdle /\ ProbeIdle /\ SceneInit /\ CarIdle /\ OverlayIdle /\ FsplIdle /\ ExplainInit /\ FieldIdle

SpecExplain == ExplainOnlyInit /\ [][ExplainNext]_vars

FieldFrameOthers ==
  <<rayVars, probeVars, sceneVars, carVars, overlayVars, fsplVars, explainVars>>

FieldNext ==
  \/ \E t \in FieldTxSet : FieldAddTx(t) /\ UNCHANGED FieldFrameOthers
  \/ \E k \in {1, Len(ftxs)} : FieldRemoveTx(k) /\ UNCHANGED FieldFrameOthers
  \/ \E k \in {1, Len(ftxs)}, t \in FieldTxSet :
       FieldEditTx(k, t) /\ UNCHANGED FieldFrameOthers
  \/ FieldFrame /\ UNCHANGED FieldFrameOthers

FieldOnlyInit ==
  RayIdle /\ ProbeIdle /\ SceneInit /\ CarIdle /\ OverlayIdle /\ FsplIdle /\ ExplainIdle /\ FieldInit

SpecField == FieldOnlyInit /\ [][FieldNext]_vars

OverlayNext ==
  \/ OverlayEnter /\ UNCHANGED <<rayVars, probeVars, sceneVars, carVars, fsplVars, explainVars, fieldVars>>
  \/ OverlaySample /\ UNCHANGED <<rayVars, probeVars, sceneVars, carVars, fsplVars, explainVars, fieldVars>>

OverlayOnlyInit == RayIdle /\ ProbeIdle /\ SceneInit /\ CarIdle /\ OverlayInit /\ FsplIdle /\ ExplainIdle /\ FieldIdle

SpecOverlay == OverlayOnlyInit /\ [][OverlayNext]_vars

\* ---------------------------------------------------------------------
\* Properties of buildRayBundle
\* ---------------------------------------------------------------------
HopIdx(b) == 1 .. Len(b)
BundleIdx == 1 .. Len(bundles)
\* the loss a hop applies
HopLoss(h) == FAdd(h.fsplLoss, h.reflLoss)

\* C1: for a positive transmitter frequency, prAfter is non-increasing from
\* each hop of a returned bundle to the next.
C1_PowerNonIncreasing ==
  \A n \in BundleIdx : \A k \in HopIdx(bundles[n]) :
    (rtx.freqMHz > 0 /\ k > 1)
      => FLe(bundles[n][k].prAfter, bundles[n][k - 1].prAfter)

\* C6: marching halts once the floor is reached: every non-final hop of a
\* returned bundle has prAfter > -110 dBm, and the final hop is not lower than
\* -110 dBm minus the loss of that hop.
C6_HaltsAtFloor ==
  \A n \in BundleIdx : \A k \in HopIdx(bundles[n]) :
    LET h == bundles[n][k]
    IN /\ k < Len(bundles[n]) => FGt(h.prAfter, cdB(-110))
       /\ k = Len(bundles[n])
            => ~FLt(h.prAfter, FSub(cdB(-110), HopLoss(h)))

\* a returned bundle of two hops whose final hop is at or below the floor
C6_Witness ==
  /\ rayPc = "return"
  /\ \E n \in BundleIdx :
       /\ Len(bundles[n]) = 2
       /\ FLe(bundles[n][2].prAfter, cdB(-110))
       /\ FGt(bundles[n][1].prAfter, cdB(-110))

\* C7 as stated: prAfter >= -110 dBm for every hop of every returned bundle
\* (hops whose power is not a number are left aside).
C7_AllHopsAboveFloor ==
  \A n \in BundleIdx : \A k \in HopIdx(bundles[n]) :
    ~IsNaN(bundles[n][k].prAfter) => FGe(bundles[n][k].prAfter, cdB(-110))

\* C7 amended: prAfter >= -110 dBm for every hop of a returned bundle except
\* its last one (the hop on which marching halts may end below the floor).
C7_NonFinalHopsAboveFloor ==
  \A n \in BundleIdx : \A k \in HopIdx(bundles[n]) :
    k < Len(bundles[n]) => FGe(bundles[n][k].prAfter, cdB(-110))

\* a returned bundle of three hops, the last one below the floor
C7_Witness ==
  \E n \in BundleIdx :
    /\ Len(bundles[n]) = 3
    /\ FLt(bundles[n][3].prAfter, cdB(-110))
    /\ FGe(bundles[n][2].prAfter, cdB(-110))

\* C8: every returned bundle has between 1 and maxBounces + 1 hops, and a
\* ray that ends without a recorded hop adds no bundle.
C8_HopCountInv ==
  \A n \in BundleIdx :
    Len(bundles[n]) >= 1 /\ Len(bundles[n]) <= MAX_BOUNCES + 1

C8_HopCount ==
  /\ []C8_HopCountInv
  /\ [][(rayPc = "emit" /\ hops = <<>>) => bundles' = bundles]_vars

\* a bundle of maxBounces + 1 hops has been returned
C8_Witness ==
  /\ rayPc = "return"
  /\ \E n \in BundleIdx : Len(bundles[n]) = MAX_BOUNCES + 1

\* the loss band of a recorded material label
InBand(material, loss) ==
  IF material = "glass" THEN loss >= cdB(10) /\ loss <= cdB(20)
  ELSE IF material = "metal" THEN loss >= 0 /\ loss <= cdB(3)
  ELSE loss >= cdB(3) /\ loss <= cdB(9)

RowIdx == 1 .. Len(payload.rows)

\* C2: with exactly one transmitter the probe reports an infinite margin.
C2_SingleTxInfiniteMargin ==
  (probeDone /\ Len(ptxs) = 1) => payload.margin = Infinity

\* C3: a probe of an empty transmitter set returns (the call is always
\* possible and completes) a result with no rows and no weights whose best
\* index names no transmitter.
C3_EmptyProbe ==
  Len(ptxs) = 0 =>
    /\ ~probeDone => ENABLED ProbeAt
    /\ probeDone =>
         /\ payload.rows = <<>>
         /\ payload.weights = <<>>
         /\ payload.bestIdx \notin 1 .. Len(ptxs)
         /\ \A k \in RowIdx : payload.rows[k].idx # payload.bestIdx

\* the probe of an empty transmitter set has returned
C3_Witness == probeDone /\ Len(ptxs) = 0

OtherPr(k) == { payload.rows[j].pr : j \in RowIdx \ {k} }
AllNumbers == \A k \in RowIdx : ~IsNaN(payload.rows[k].pr)

C4_BundlesFollowTxs ==
  (meshesReady /\ timers = <<>>) => bundlesByTx = BuildMap(txs)

\* ---------------------------------------------------------------------
\* Properties of the probe vehicle
\* ---------------------------------------------------------------------
\* C5: two consecutive calls of probeAtWithRc from the probe vehicle are at
\* least 100 ms apart.
C5_ProbeCallsThrottled == callGap # -1 => callGap >= 100


\* ---------------------------------------------------------------------
\* Properties of PathRfOverlay
\* ---------------------------------------------------------------------
\* the best-server index of the j-th sample taken so far
BestAt(j) == probeAt(outPts[j], otxs, omeshes).bestIdx

\* the pairs of consecutive samples whose best-server index differs
Changes == { j \in 2 .. Len(outPts) : BestAt(j) # BestAt(j - 1) }

\* the j-th smallest element of a set of numbers
RECURSIVE NthOf(_, _)
NthOf(S, j) ==
  LET lo == CHOOSE x \in S : \A y \in S : x <= y
  IN IF j = 1 THEN lo ELSE NthOf(S \ {lo}, j - 1)

\* C11: the handover events are, in order, exactly the pairs of consecutive
\* samples whose best-server index differs, one event per pair; each event
\* holds the later sample's position, the earlier sample's best server as
\* "from" and the later one's as "to", so from # to and every event starts
\* from the server the previous event ended on.
C11_HandoverEvents ==
  /\ Len(hMarkers) = Cardinality(Changes)
  /\ \A e \in 1 .. Len(hMarkers) :
       LET j == NthOf(Changes, e)
       IN /\ hMarkers[e].pos = outPts[j]
          /\ hMarkers[e].from = BestAt(j - 1)
          /\ hMarkers[e].to = BestAt(j)
          /\ hMarkers[e].from # hMarkers[e].to
  /\ \A e \in 2 .. Len(hMarkers) : hMarkers[e].from = hMarkers[e - 1].to

\* two handovers on a finished overlay, the second back to the first server
C11_Witness ==
  /\ opc = "done"
  /\ Len(hMarkers) = 2
  /\ hMarkers[2].to = hMarkers[1].from
  /\ Len(outPts) > 4

\* C12: a sample that is not the first of its segment lies at most STEP
\* metres from the sample before it, and every segment gets at least two
\* samples.
C12_StepSpacing ==
  [][(opc = "loop" /\ ok > 0) =>
       /\ Dist(outPts'[Len(outPts')], outPts[Len(outPts)]) <= STEP
       /\ SampleCount(opoints[oi + 1], opoints[oi + 2]) >= 2]_vars

\* ---------------------------------------------------------------------
\* Properties of MovingTxController
\* ---------------------------------------------------------------------
\* the transmitters that follow at least two waypoints
Movers ==
  { k \in 1 .. Len(txs) :
      txs[k].mobility.kind = "waypoint" /\ Len(txs[k].mobility.points) >= 2 }

\* the length in metres of the segment transmitter k is on
SegLen(k) ==
  LET m == txs[k].mobility
      n == Len(m.points)
  IN Abs(m.points[m.currentIdx + 1] - m.points[((m.currentIdx + 1) % n) + 1])

\* the distance covered on the current segment after a frame of dt ms
\* reaches the segment's length (both in millimetres; a segment of no
\* length counts as the 1e-6 m of line 445, reached by any movement)
Reached(k, dt) ==
  LET m == txs[k].mobility
  IN IF SegLen(k) = 0 THEN m.speed * dt > 0
     ELSE m.progress * SegLen(k) + m.speed * dt >= 1000 * SegLen(k)

\* C13: on a frame in which the distance covered on the current segment
\* reaches the segment's length, currentIdx goes to the next index, and to 0
\* from the last one; on every other frame it keeps its value.
C13_WaypointAdvance ==
  [][\A dt \in MobDtSet : FrameTick(dt) =>
       \A k \in Movers :
         LET m == txs[k].mobility
             n == Len(m.points)
         IN txs'[k].mobility.currentIdx =
              IF Reached(k, dt)
              THEN (IF m.currentIdx = n - 1 THEN 0 ELSE m.currentIdx + 1)
              ELSE m.currentIdx]_vars

\* a transmitter on three waypoints has just wrapped from the last segment
\* to segment 0 (it still stands at the last segment's start)
C13_Witness ==
  \E k \in Movers :
    /\ Len(txs[k].mobility.points) = 3
    /\ txs[k].mobility.currentIdx = 0
    /\ txs[k].mobility.progress = 0
    /\ txs[k].pos = txs[k].mobility.points[3]
    /\ txs[k].mobility.points[3] # txs[k].mobility.points[1]

\* C14: a waypoint follower's progress lies in [0, 1) and its currentIdx is
\* an index of its waypoint list.
C14_ProgressAndIndexInRange ==
  \A k \in Movers :
    /\ txs[k].mobility.progress >= 0
    /\ txs[k].mobility.progress < 1000
    /\ txs[k].mobility.currentIdx \in 0 .. (Len(txs[k].mobility.points) - 1)

\* a transmitter on the closing segment of a three-point loop, part-way
C14_Witness ==
  \E k \in Movers :
    /\ Len(txs[k].mobility.points) = 3
    /\ txs[k].mobility.currentIdx = 2
    /\ txs[k].mobility.progress \in 1 .. 999

\* ---------------------------------------------------------------------
\* Properties of the quality tier, the stability flag and the wall loss
\* ---------------------------------------------------------------------
\* the tiers from worst to best, and the power each one starts above
TierOrder == <<"dead", "poor", "fair", "good", "excellent">>
TierFloor == <<-Infinity, cdB(-110), cdB(-100), cdB(-85), cdB(-70)>>
TierRank(tier) == CHOOSE r \in 1 .. 5 : TierOrder[r] = tier

\* the step function: the best tier whose floor the power strictly exceeds
StepTier(pw) ==
  LET above == { r \in 2 .. 5 : ~IsNaN(pw) /\ pw > TierFloor[r] }
  IN IF above = {} THEN "dead"
     ELSE TierOrder[CHOOSE r \in above : \A q \in above : q <= r]

\* the received powers the probe and the route have classified
ClassifiedByProbe == { payload.bestPower }
ClassifiedByRoute ==
  { FSub(ptxs[k].powerDbm, routeFsplDb(ptxs[k].dist, ptxs[k].freqMHz)) :
      k \in 1 .. Len(ptxs) }

\* C15: the probe's tier is the step function of its best power, the
\* route's quality of a transmitter is the step function of its received
\* power; -70.0 dBm is "good"; a higher power never has a worse tier.
C15_QualityTier ==
  /\ probeDone =>
       /\ payload.qualityTier = StepTier(payload.bestPower)
       /\ payload.bestPower = cdB(-70) => payload.qualityTier = "good"
  /\ routeRes.status = 200 =>
       /\ \A k \in 1 .. Len(ptxs) :
            LET a == routeRes.context.allTransmitters[k]
                t == ptxs[a.id]
                rp == FSub(t.powerDbm, routeFsplDb(t.dist, t.freqMHz))
            IN /\ a.quality = StepTier(rp)
               /\ rp = cdB(-70) => a.quality = "good"
       /\ routeRes.context.bestSignal.quality =
            routeRes.context.allTransmitters[1].quality
  /\ (probeDone /\ routeRes.status = 200) =>
       \A a \in ClassifiedByProbe \cup ClassifiedByRoute :
         \A b \in ClassifiedByProbe \cup ClassifiedByRoute :
           FGe(a, b) =>
             /\ TierRank(QualityTier(a)) >= TierRank(QualityTier(b))
             /\ TierRank(routeQuality(a)) >= TierRank(routeQuality(b))

\* both have classified a best power of exactly -70.0 dBm, next to a
\* transmitter received at -69.9 dBm
C15_Witness ==
  /\ probeDone
  /\ routeRes.status = 200
  /\ Len(ptxs) = 2
  /\ payload.rows[1].pr = cdB(-70)
  /\ payload.rows[2].pr = -6990
  /\ payload.qualityTier = "excellent"
  /\ routeRes.context.allTransmitters[2].quality = "good"

\* C16: the stability flag is set exactly when the margin is at least
\* 3 dB: set at 3.00 dB, not set at 2.99 dB.
C16_HandoverStable ==
  probeDone =>
    /\ payload.handoverStable <=>
         (~IsNaN(payload.margin) /\ payload.margin >= cdB(3))
    /\ payload.margin = cdB(3) => payload.handoverStable
    /\ payload.margin = 299 => ~payload.handoverStable

\* two transmitters received exactly 3.00 dB apart
C16_Witness ==
  /\ probeDone
  /\ Len(ptxs) = 2
  /\ payload.rows[2].pr - payload.rows[1].pr = cdB(3)
  /\ payload.margin = cdB(3)
  /\ payload.handoverStable

\* the received power of transmitter t at the same point without the
\* obstruction
Unobstructed(t) == probeAtWithRc(<<[t EXCEPT !.blocked = FALSE]>>).rows[1]

\* C17: with an intersection reported the row's power is 25 dB below the
\* unobstructed one and its line-of-sight flag is false; with none the flag
\* is true and the power is the transmit power less the free-space loss.
C17_WallLoss ==
  probeDone =>
    \A k \in RowIdx :
      LET t == ptxs[k]
          row == payload.rows[k]
      IN /\ row.los = ~t.blocked
         /\ t.blocked => row.pr = FSub(Unobstructed(t).pr, cdB(25))
         /\ ~t.blocked =>
              row.pr = FSub(t.powerDbm, fsplDb(t.dist, t.freqMHz))

\* the same transmitter probed with and without a wall in between
C17_Witness ==
  /\ probeDone
  /\ Len(ptxs) = 2
  /\ ptxs[1].blocked /\ ~ptxs[2].blocked
  /\ ptxs[2] = [ptxs[1] EXCEPT !.blocked = FALSE]
  /\ payload.rows[2].pr - payload.rows[1].pr = cdB(25)
  /\ ~payload.rows[1].los /\ payload.rows[2].los

\* C18: a probe on a non-empty transmitter set returns finite received
\* powers and a finite best power, and its best-server index names a
\* transmitter of maximal received power.
C18_FiniteProbe ==
  (probeDone /\ Len(ptxs) > 0) =>
    /\ \A k \in RowIdx : IsFinite(payload.rows[k].pr)
    /\ IsFinite(payload.bestPower)
    /\ payload.bestIdx \in RowIdx
    /\ \A k \in RowIdx : payload.rows[payload.bestIdx].pr >= payload.rows[k].pr

\* ---------------------------------------------------------------------
\* Properties of fsplDb
\* ---------------------------------------------------------------------
\* C19: at a fixed frequency above zero the loss at the greater of two distances is
\* strictly greater, in the page and in the route.
C19_StrictlyIncreasing ==
  (fout.done /\ ff > 0 /\ fd2 > fd1 /\ fd1 > 0) =>
    /\ FGt(fout.page2, fout.page1)
    /\ FGt(fout.route2, fout.route1)

\* C19 as the code has it: at a frequency above zero the loss never
\* decreases with the distance, is the same at all distances up to one
\* metre and strictly greater at the greater distance once that exceeds one
\* metre; at frequency zero it is -Infinity and at a negative frequency NaN,
\* whatever the distance.  The page and the route compute the same loss.
C19_IncreasingBeyondOneMetre ==
  (fout.done /\ fd2 > fd1 /\ fd1 > 0) =>
    /\ fout.route1 = fout.page1 /\ fout.route2 = fout.page2
    /\ ff > 0 =>
         /\ IsFinite(fout.page1) /\ IsFinite(fout.page2)
         /\ fout.page2 >= fout.page1
         /\ fd2 <= 1000 => fout.page2 = fout.page1
         /\ fd2 > 1000 => fout.page2 > fout.page1
    /\ ff = 0 => fout.page1 = -Infinity /\ fout.page2 = -Infinity
    /\ ff < 0 => IsNaN(fout.page1) /\ IsNaN(fout.page2)

\* the loss computed at 0.25 m and at 0.5 m, at 2400 MHz
C19_Witness ==
  /\ fout.done
  /\ fd1 = 250 /\ fd2 = 500 /\ ff = 2400
  /\ fout.page1 = fout.page2

\* ---------------------------------------------------------------------
\* Properties of handleExplainRf
\* ---------------------------------------------------------------------
\* C20: the step in which a request fails leaves the explanation open with
\* no analysis and not loading, and leaves the transmitter set, the pending
\* and the published ray bundles and the probe results as they were.
C20_FailureIsDegraded ==
  [][\A r \in requests : ExplainFail(r) =>
       /\ rfExplanation'.open
       /\ rfExplanation'.analysis = "null"
       /\ ~rfExplanation'.isLoading
       /\ rfExplanation'.position = r.pos
       /\ txs' = txs
       /\ timers' = timers
       /\ bundlesByTx' = bundlesByTx
       /\ payload' = payload
       /\ carProbe' = carProbe]_vars

\* a request made with a transmitter in the set has failed; the set and
\* its published bundles are still there
C20_Witness ==
  /\ reqCount > 0
  /\ requests = {}
  /\ rfExplanation = FailedExplanation(20)
  /\ Len(txs) = 1
  /\ meshesReady
  /\ timers = <<>>
  /\ bundlesByTx = BuildMap(txs)

\* ---------------------------------------------------------------------
\* Properties of the softmax weights
\* ---------------------------------------------------------------------
\* C21: a Probe Result has one weight per transmitter; for a non-empty
\* transmitter set the weights sum to 1 (to the rounding of the
\* ten-thousandths, one unit per weight), and there is none without a
\* transmitter.
C21_WeightsSumToOne ==
  probeDone =>
    /\ Len(payload.weights) = Len(ptxs)
    /\ Len(ptxs) > 0 =>
         /\ IsFinite(SumSeq(payload.weights))
         /\ Abs(SumSeq(payload.weights) - ExpScale) <= Len(ptxs)

\* the same for the probes in which every received power is finite
C21_FiniteWeightsSumToOne ==
  (\A k \in RowIdx : IsFinite(payload.rows[k].pr)) => C21_WeightsSumToOne

\* ---------------------------------------------------------------------
\* Properties of InterferenceField
\* ---------------------------------------------------------------------
\* the arrays hold the first MAX_TX transmitters of the set
FieldInStep ==
  \A i \in Slots :
    i <= Len(ftxs) =>
      /\ uPos[i] = ftxs[i].pos
      /\ uFreq[i] = ftxs[i].freqMHz * 1000
      /\ uPow[i] = AmplitudeOf(ftxs[i].powerDbm)

C22_FieldInv ==
  /\ uTxCount = (IF Len(ftxs) <= 8 THEN Len(ftxs) ELSE 8)
  /\ \A i \in Slots : i > uTxCount => uFreq[i] = 0 /\ uPow[i] = 0
  /\ \A i \in ShaderSlots : i <= 8 /\ i <= Len(ftxs)

\* C22: the count passed to the field is min(n, 8) and the slots beyond it
\* carry zero frequency and zero amplitude, so that the shader adds no
\* transmitter beyond the eighth; after every frame and every change of
\* the number of transmitters the slots up to the count hold the first
\* transmitters of the set, in order.
C22_FieldContributors ==
  /\ []C22_FieldInv
  /\ [][(uFreq' # uFreq \/ uPow' # uPow \/ uPos' # uPos \/ uTxCount' # uTxCount)
          => FieldInStep']_vars

\* nine transmitters, eight of them in the field, the last slot a 900 MHz
\* transmitter
C22_Witness ==
  /\ Len(ftxs) = 9
  /\ uTxCount = 8
  /\ FieldInStep
  /\ uFreq[8] = 900000
  /\ ShaderSlots = Slots
\* ---------------------------------------------------------------------
\* Properties of the ray count and of the deferred bundle updates
\* ---------------------------------------------------------------------
\* the transmitter counts the ray count is examined for
CountRange == 0 .. (MAX_TX + 1)

\* the ray count of every bundle computed so far, published or pending
RaysInUse ==
  { bundlesByTx[id].rays : id \in DOMAIN bundlesByTx }
    \cup UNION { { timers[k][id].rays : id \in DOMAIN timers[k] } :
                 k \in 1 .. Len(timers) }

\* C23: the number of rays per transmitter never grows with the number of
\* transmitters and is never below 120: it is 260 for one transmitter and
\* 60 fewer for each further one until 120 is reached, in the Scene and in
\* the ControlPanel alike, and every bundle is built with such a count.
C23_RayCount ==
  /\ raysPerTx(1) = 260
  /\ \A n \in CountRange :
       /\ raysPerTx(n) >= 120
       /\ panelRaysPerTx(n) >= 120
       /\ raysPerTx(n + 1) <= raysPerTx(n)
       /\ panelRaysPerTx(n + 1) <= panelRaysPerTx(n)
       /\ n >= 1 => /\ panelRaysPerTx(n) = raysPerTx(n)
                    /\ raysPerTx(n + 1) = Max(120, raysPerTx(n) - 60)
  /\ \A r \in RaysInUse : r >= 120 /\ r <= 260
  /\ \A id \in DOMAIN bundlesByTx :
       bundlesByTx[id].rays = raysPerTx(Cardinality(DOMAIN bundlesByTx))

\* two transmitters, each traced with 200 rays
C23_Witness ==
  /\ Cardinality(DOMAIN bundlesByTx) = 2
  /\ \A id \in DOMAIN bundlesByTx : bundlesByTx[id].rays = 200

\* what is published once nothing is pending belongs to the current set
BundlesOfCurrentSet ==
  (meshesReady /\ timers = <<>>) =>
    /\ DOMAIN bundlesByTx = TxIds(txs)
    /\ \A id \in TxIds(txs) :
         /\ bundlesByTx[id].powerDbm = TxById(txs, id).powerDbm
         /\ bundlesByTx[id].freqMHz = TxById(txs, id).freqMHz
         /\ bundlesByTx[id].rays = raysPerTx(Len(txs))

\* C25: with the geometry loaded and no deferred update pending, the
\* published map was computed from the most recent transmitter set (its keys
\* are the current ids); the update that runs is always the oldest pending
\* one, so an older result never replaces a newer one.
C25_LatestRebuildWins ==
  /\ []BundlesOfCurrentSet
  /\ [][(Len(timers') < Len(timers)) =>
          /\ bundlesByTx' = timers[1]
          /\ timers' = Tail(timers)]_vars

\* two changes of the set were made, every deferred update has run
C25_Witness ==
  /\ meshesReady
  /\ timers = <<>>
  /\ edits >= 2
  /\ Len(txs) = 2
  /\ DOMAIN bundlesByTx = TxIds(txs)

\* ---------------------------------------------------------------------
\* Position of a waypoint follower
\* ---------------------------------------------------------------------
\* C24: a waypoint follower stands at the interpolation between
\* points[currentIdx] and points[(currentIdx + 1) mod n] at its stored
\* progress; after a wrap it is at the start of the new segment, not back at
\* the start of the segment it has just completed.
C24_PositionOnCurrentSegment ==
  \A k \in Movers :
    LET m == txs[k].mobility
        n == Len(m.points)
    IN txs[k].pos = Lerp(m.points[m.currentIdx + 1],
                         m.points[((m.currentIdx + 1) % n) + 1], m.progress)

\* ---------------------------------------------------------------------
\* Explanation requests that overlap or outlive the modal
\* ---------------------------------------------------------------------
\* C26: once no request is in flight, an analysis shown in the modal is the
\* answer to the request issued last, whatever the order of the responses.
C26_LatestRequestShown ==
  (requests = {} /\ rfExplanation.open /\ rfExplanation.analysis = "analysis")
    => rfExplanation.req = reqCount

\* C30: a closed modal opens only when the user issues a new request; a
\* response or a failure of an earlier request leaves it closed.
C30_ClosedStaysClosed ==
  [][(~rfExplanation.open /\ rfExplanation'.open) =>
       reqCount' = reqCount + 1]_vars

\* ---------------------------------------------------------------------
\* The position stored with the live car probe
\* ---------------------------------------------------------------------
\* the position read through carProbe.pos: the stored reference is the
\* vector tmpPos.current itself (lines 1234 and 1248, line 2718)
CarProbePos == tmpPos

\* C27: the position stored with the car probe is the one its payload was
\* computed at; between two accepted updates the stored pair stays as it is
\* while the vehicle moves on.
C27_StoredPositionMatchesPayload ==
  carProbe.pos # "null" => CarProbePos = carProbe.payload.at

\* ---------------------------------------------------------------------
\* The explain-rf route against the client probe
\* ---------------------------------------------------------------------
\* C28: for the same transmitters, all in line of sight, the route's context
\* and the client probe give the same quality tier of the best server, the
\* same interference count and the same handover-stability flag.
C28_RouteAgreesWithProbe ==
  (/\ probeDone
   /\ routeRes.status = 200
   /\ \A k \in RowIdx : payload.rows[k].los) =>
    /\ routeRes.context.bestSignal.quality = payload.qualityTier
    /\ routeRes.context.interferenceCount = payload.interferenceCount
    /\ routeRes.context.handoverStable = payload.handoverStable

====
